---- MODULE Spec2Model ----
(***************************************************************************)
(* The suggestion lifecycle of obsidian-thought-completion: the state      *)
(* machine (state-machine.ts), the trigger plugin (editor/triggers.ts),    *)
(* the ghost text state field (editor/ghost-text.ts), the completion       *)
(* provider (ai/provider.ts) and the glue of main.ts.                      *)
(*                                                                         *)
(* One step of the model is one task of the JavaScript event loop: a       *)
(* dispatched editor transaction, a command, a timer callback, an          *)
(* animation frame callback, the completion of settings persistence, or    *)
(* the settling of a completion request together with the continuation of  *)
(* predict() that follows it.                                              *)
(***************************************************************************)
EXTENDS Integers, Sequences, FiniteSets, Bags, TLC

VARIABLES
    views,          \* the open editor views (fixed during a behaviour)
    doc,            \* view -> document text (sequence of characters)
    cursor,         \* view -> state.selection.main.head
    ghost,          \* view -> ghostTextState.suggestion ({} is null)
    lastDocLength,  \* view -> TriggerPlugin.lastDocLength
    idleTimer,      \* view -> TriggerPlugin.idleTimer: "none", or the pending
                    \* countdown, "fresh" when the last edit of the view
                    \* started it and "stale" when an earlier edit did
    raf,            \* view -> a requestAnimationFrame(clearSuggestion) is pending
    settings,       \* the settings object shared by plugin, engine and provider:
                    \* its fields enabled and manualTriggerOnly
    state,          \* SuggestionStateMachine.state
    queueTimer,     \* SuggestionStateMachine.queueTimer is non-null
    orphanTimers,   \* pending delay timers no longer referenced by queueTimer
    currentView,    \* SuggestionStateMachine.currentView
    abortController,\* AIProvider.abortController is non-null
    requests,       \* bag of the completion requests whose complete() has not
                    \* settled: [view, cursorPosition, controller], controller
                    \* "held" (abortController is this request's controller),
                    \* "aborted", or "lost" (not aborted, no longer referenced)
    call,           \* the last call of a pure helper (extractContext,
                    \* transformCase) with its arguments and its result
    loaded          \* the plugin is loaded: plugin.stateMachine is non-null
                    \* and the editor extension is installed in the views

vars == <<views, doc, cursor, ghost, lastDocLength, idleTimer, raf, settings,
          state, queueTimer, orphanTimers, currentView,
          abortController, requests, call, loaded>>

(***************************************************************************)
(* Bounds and input sets                                                   *)
(***************************************************************************)
MaxDocLen == 2
MaxRequests == 2
MaxOrphanTimers == 1

NL == "\n"
TICK == "tick"   \* the backtick character
TypedChars == {"a", ".", NL}
Texts == {"s1", "s2"}
NoView == 0
SettingNames == {"enabled", "manualTriggerOnly"}

\* The settings a task reads at one place only (checkTriggers, complete). The
\* settings tab can change them between any two tasks and changing them does
\* nothing else, so the task that reads them reads an arbitrary value.
Options == [triggerOnPunctuation : BOOLEAN, triggerOnNewline : BOOLEAN,
            apiKey : BOOLEAN]
\* what an edit can read (checkTriggers), what predict() can read (complete)
EditOptions == {o \in Options : o.apiKey}
RequestOptions == {o \in Options : o.triggerOnPunctuation /\ o.triggerOnNewline}

Min(S) == CHOOSE x \in S : \A y \in S : x <= y
Max(S) == CHOOSE x \in S : \A y \in S : x >= y

(***************************************************************************)
(* JavaScript string helpers (offsets are 0-based, sequences 1-based)      *)
(***************************************************************************)
Slice(s, from, to) == SubSeq(s, from + 1, to)

StartsWithAt(s, sub, i) ==
    /\ i + Len(sub) <= Len(s)
    /\ \A k \in 1..Len(sub) : s[i + k] = sub[k]

IndexOf(s, sub, from) ==
    LET hits == {i \in from..Len(s) : StartsWithAt(s, sub, i)}
    IN IF hits = {} THEN -1 ELSE Min(hits)

(***************************************************************************)
(* ai/context.ts                                                           *)
(***************************************************************************)
FrontmatterSlack == 100

\* A fence count that only sees fences preceded by a line break.
isInCodeBlockAfterLineBreak(d, cursorPosition) ==
    LET textBefore == Slice(d, 0, cursorPosition)
        openFences == Cardinality({i \in 1..Len(textBefore) :
                          /\ textBefore[i] = NL
                          /\ StartsWithAt(textBefore, <<TICK, TICK, TICK>>, i)})
    IN openFences % 2 = 1

isInCodeBlock(d, cursorPosition) ==
    LET textBefore == Slice(d, 0, cursorPosition)
        openFences == Cardinality({i \in 0..Len(textBefore) :
                          /\ (i = 0 \/ textBefore[i] = NL)
                          /\ StartsWithAt(textBefore, <<TICK, TICK, TICK>>, i)})
    IN openFences % 2 = 1

isInFrontmatter(d, cursorPosition) ==
    IF ~StartsWithAt(d, <<"-", "-", "-", NL>>, 0) THEN FALSE
    ELSE LET endOfFrontmatter == IndexOf(d, <<NL, "-", "-", "-", NL>>, 4)
         IN IF endOfFrontmatter = -1
            THEN cursorPosition < IndexOf(d, <<NL>>, 4) + FrontmatterSlack
            ELSE cursorPosition <= endOfFrontmatter + 4

(***************************************************************************)
(* The engine record: the mutable state the handlers read and write,       *)
(* threaded through the operators below.                                   *)
(***************************************************************************)
Cur(o) ==
       [settings |-> [enabled |-> settings.enabled,
                      manualTriggerOnly |-> settings.manualTriggerOnly,
                      triggerOnPunctuation |-> o.triggerOnPunctuation,
                      triggerOnNewline |-> o.triggerOnNewline,
                      apiKey |-> o.apiKey],
        doc |-> doc, cursor |-> cursor, ghost |-> ghost,
        lastDocLength |-> lastDocLength, idleTimer |-> idleTimer,
        raf |-> raf, state |-> state, queueTimer |-> queueTimer,
        orphanTimers |-> orphanTimers, currentView |-> currentView,
        abortController |-> abortController, requests |-> requests,
        loaded |-> loaded]

Install(e) ==
    /\ BagCardinality(e.requests) <= MaxRequests
    /\ e.orphanTimers <= MaxOrphanTimers
    /\ doc' = e.doc
    /\ cursor' = e.cursor
    /\ ghost' = e.ghost
    /\ lastDocLength' = e.lastDocLength
    /\ idleTimer' = e.idleTimer
    /\ raf' = e.raf
    /\ state' = e.state
    /\ queueTimer' = e.queueTimer
    /\ orphanTimers' = e.orphanTimers
    /\ currentView' = e.currentView
    /\ abortController' = e.abortController
    /\ requests' = e.requests
    /\ call' = call
    /\ loaded' = e.loaded

(***************************************************************************)
(* editor/ghost-text.ts                                                    *)
(***************************************************************************)
RECURSIVE applyEffects(_, _)
applyEffects(suggestion, effects) ==
    IF effects = <<>> THEN suggestion
    ELSE applyEffects(Head(effects), Tail(effects))

\* A state field that keeps the suggestion across selection changes.
ghostTextStateUpdateKeepsOnSelection(suggestion, tr) ==
    LET s1 == applyEffects(suggestion, tr.effects)
    IN IF tr.docChanged THEN {} ELSE s1

\* ghostTextState.update: tr = [effects, docChanged, selection, head]
ghostTextStateUpdate(suggestion, tr) ==
    LET s1 == applyEffects(suggestion, tr.effects)
        s2 == IF tr.docChanged THEN {} ELSE s1
        s3 == IF s2 # {} /\ tr.selection /\ (\E g \in s2 : tr.head # g.position)
              THEN {} ELSE s2
    IN s3

setView(e, v) == [e EXCEPT !.currentView = v]

\* view.dispatch({effects: setSuggestionEffect.of(value)}): the state field is
\* updated, then TriggerPlugin.update runs with docChanged and selectionSet
\* false, where it only calls setView(update.view). In a view the extension
\* has been removed from there is no field and no plugin to update.
dispatchEffect(e, v, value) ==
    IF ~e.loaded THEN e
    ELSE setView([e EXCEPT !.ghost[v] = ghostTextStateUpdate(e.ghost[v],
                      [effects |-> <<value>>, docChanged |-> FALSE,
                       selection |-> FALSE, head |-> e.cursor[v]])], v)

\* A show that writes the suggestion into the document at the cursor.
showSuggestionInsertsText(e, v, text) ==
    [dispatchEffect(e, v, {[text |-> text, position |-> e.cursor[v]]})
        EXCEPT !.doc[v] = Slice(@, 0, e.cursor[v]) \o <<text>>
                             \o Slice(@, e.cursor[v], Len(@))]

\* A show that anchors the suggestion at the start of the document.
showSuggestionAtStart(e, v, text) ==
    dispatchEffect(e, v, {[text |-> text, position |-> 0]})

showSuggestion(e, v, text) ==
    dispatchEffect(e, v, {[text |-> text, position |-> e.cursor[v]]})

clearSuggestion(e, v) == dispatchEffect(e, v, {})

hasSuggestion(e, v) == e.ghost[v] # {}

(***************************************************************************)
(* ai/provider.ts                                                          *)
(***************************************************************************)
Recontrol(r, from, to) ==
    IF r.controller = from THEN [r EXCEPT !.controller = to] ELSE r

\* AIProvider.abort
abort(e) ==
    IF e.abortController
    THEN [e EXCEPT !.requests = BagOfAll(LAMBDA r : Recontrol(r, "held", "aborted"), @),
                   !.abortController = FALSE]
    ELSE e

(***************************************************************************)
(* state-machine.ts                                                        *)
(***************************************************************************)
setState(e, newState) == [e EXCEPT !.state = newState]

startQueueTimer(e) ==
    [e EXCEPT !.orphanTimers = IF e.queueTimer THEN @ + 1 ELSE @,
              !.queueTimer = TRUE]

cancelQueueTimer(e) == [e EXCEPT !.queueTimer = FALSE]

\* predict() up to its await: the guard, extractContext, and the synchronous
\* part of AIProvider.complete (abort, credential check, fetch issued). With no
\* credential complete() returns null without a request and the continuation
\* of predict() runs in the same task.
predict(e) ==
    IF e.currentView = NoView \/ e.state # "predicting" THEN e
    ELSE LET view == e.currentView
             e1 == abort(e)
         IN IF ~e1.settings.apiKey
            THEN setState(e1, "idle")
            ELSE [e1 EXCEPT !.requests = @ (+) SetToBag(
                                {[view |-> view,
                                  cursorPosition |-> e.cursor[view],
                                  controller |-> "held"]}),
                            !.abortController = TRUE]

\* A continuation of predict() that does not compare the cursor offsets.
predictResumeNoCursorCheck(e, r, suggestion) ==
    LET e1 == [e EXCEPT !.abortController = FALSE,
                        !.requests = BagOfAll(
                            LAMBDA q : Recontrol(q, "held", "lost"),
                            @ (-) SetToBag({r}))]
    IN IF e1.state # "predicting" THEN e1
       ELSE IF suggestion # ""
            THEN setState(showSuggestion(e1, r.view, suggestion), "suggesting")
            ELSE setState(e1, "idle")

\* A continuation of predict() that leaves the phase alone on absence.
predictResumeKeepsPredicting(e, r, suggestion) ==
    LET e1 == [e EXCEPT !.abortController = FALSE,
                        !.requests = BagOfAll(
                            LAMBDA q : Recontrol(q, "held", "lost"),
                            @ (-) SetToBag({r}))]
    IN IF e1.state # "predicting" THEN e1
       ELSE IF suggestion # ""
            THEN IF e1.cursor[r.view] = r.cursorPosition
                 THEN setState(showSuggestion(e1, r.view, suggestion), "suggesting")
                 ELSE setState(e1, "idle")
            ELSE e1

\* The finally block of complete() and the continuation of predict() after
\* its await, for request r settling with suggestion ("" is null or empty).
predictResume(e, r, suggestion) ==
    LET e1 == [e EXCEPT !.abortController = FALSE,
                        !.requests = BagOfAll(
                            LAMBDA q : Recontrol(q, "held", "lost"),
                            @ (-) SetToBag({r}))]
    IN IF e1.state # "predicting" THEN e1
       ELSE IF suggestion # ""
            THEN IF e1.cursor[r.view] = r.cursorPosition
                 THEN setState(showSuggestion(e1, r.view, suggestion), "suggesting")
                 ELSE setState(e1, "idle")
            ELSE setState(e1, "idle")

\* A trigger() that does not look for a code fence before the cursor.
triggerIgnoringCodeBlock(e, v) ==
    IF e.state = "disabled" THEN e
    ELSE IF e.settings.manualTriggerOnly THEN e
    ELSE LET e1 == setView(e, v)
         IN IF isInFrontmatter(e1.doc[v], e1.cursor[v]) THEN e1
            ELSE LET e2 == CASE e1.state = "queued" -> cancelQueueTimer(e1)
                             [] e1.state = "predicting" -> abort(e1)
                             [] e1.state = "suggesting" -> clearSuggestion(e1, v)
                             [] OTHER -> e1
                 IN startQueueTimer(setState(e2, "queued"))

\* A trigger() that leaves the request of a predicting engine running.
triggerKeepsRequest(e, v) ==
    IF e.state = "disabled" THEN e
    ELSE IF e.settings.manualTriggerOnly THEN e
    ELSE LET e1 == setView(e, v)
         IN IF isInCodeBlock(e1.doc[v], e1.cursor[v]) THEN e1
            ELSE IF isInFrontmatter(e1.doc[v], e1.cursor[v]) THEN e1
            ELSE LET e2 == CASE e1.state = "queued" -> cancelQueueTimer(e1)
                             [] e1.state = "suggesting" -> clearSuggestion(e1, v)
                             [] OTHER -> e1
                 IN startQueueTimer(setState(e2, "queued"))

\* A trigger() that does not cancel the delay timer of a queued engine.
triggerKeepsOldTimer(e, v) ==
    IF e.state = "disabled" THEN e
    ELSE IF e.settings.manualTriggerOnly THEN e
    ELSE LET e1 == setView(e, v)
         IN IF isInCodeBlock(e1.doc[v], e1.cursor[v]) THEN e1
            ELSE IF isInFrontmatter(e1.doc[v], e1.cursor[v]) THEN e1
            ELSE LET e2 == CASE e1.state = "predicting" -> abort(e1)
                             [] e1.state = "suggesting" -> clearSuggestion(e1, v)
                             [] OTHER -> e1
                 IN startQueueTimer(setState(e2, "queued"))

trigger(e, v) ==
    IF e.state = "disabled" THEN e
    ELSE IF e.settings.manualTriggerOnly THEN e
    ELSE LET e1 == setView(e, v)
         IN IF isInCodeBlock(e1.doc[v], e1.cursor[v]) THEN e1
            ELSE IF isInFrontmatter(e1.doc[v], e1.cursor[v]) THEN e1
            ELSE LET e2 == CASE e1.state = "queued" -> cancelQueueTimer(e1)
                             [] e1.state = "predicting" -> abort(e1)
                             [] e1.state = "suggesting" -> clearSuggestion(e1, v)
                             [] OTHER -> e1
                 IN startQueueTimer(setState(e2, "queued"))

\* A manualTrigger() without the disabled check.
manualTriggerWhileDisabled(e, v) ==
    LET e1 == setView(e, v)
    IN IF isInCodeBlock(e1.doc[v], e1.cursor[v])
          \/ isInFrontmatter(e1.doc[v], e1.cursor[v]) THEN e1
       ELSE LET e2 == abort(cancelQueueTimer(e1))
                e3 == IF e2.state = "suggesting"
                      THEN clearSuggestion(e2, v) ELSE e2
            IN predict(setState(e3, "predicting"))

manualTrigger(e, v) ==
    IF e.state = "disabled" THEN e
    ELSE LET e1 == setView(e, v)
         IN IF isInCodeBlock(e1.doc[v], e1.cursor[v])
               \/ isInFrontmatter(e1.doc[v], e1.cursor[v]) THEN e1
            ELSE LET e2 == abort(cancelQueueTimer(e1))
                     e3 == IF e2.state = "suggesting"
                           THEN clearSuggestion(e2, v) ELSE e2
                 IN predict(setState(e3, "predicting"))

\* A cancelQueue() that leaves the delay timer of a queued engine pending.
cancelQueueKeepsTimer(e) ==
    CASE e.state = "queued" -> setState(e, "idle")
      [] e.state = "predicting" -> setState(abort(e), "idle")
      [] e.state = "suggesting" -> setState(e, "idle")
      [] OTHER -> e

cancelQueue(e) ==
    CASE e.state = "queued" -> setState(cancelQueueTimer(e), "idle")
      [] e.state = "predicting" -> setState(abort(e), "idle")
      [] e.state = "suggesting" -> setState(e, "idle")
      [] OTHER -> e

dismiss(e) ==
    IF e.state = "suggesting" /\ e.currentView # NoView
    THEN [setState(e, "idle") EXCEPT !.raf[e.currentView] = TRUE]
    ELSE e

disable(e) ==
    LET e1 == abort(cancelQueueTimer(e))
        e2 == IF e1.state = "suggesting" /\ e1.currentView # NoView
              THEN clearSuggestion(e1, e1.currentView) ELSE e1
    IN setState(e2, "disabled")

destroy(e) == abort(cancelQueueTimer(e))

enable(e) == IF e.state = "disabled" THEN setState(e, "idle") ELSE e

updateSettings(e) ==
    IF ~e.settings.enabled /\ e.state # "disabled" THEN disable(e)
    ELSE IF e.settings.enabled /\ e.state = "disabled" THEN enable(e)
    ELSE e

\* A timer callback that starts a request whatever the phase.
queueTimerCallbackAnyPhase(e) ==
    LET e1 == [e EXCEPT !.queueTimer = FALSE]
    IN IF e1.state # "disabled" THEN predict(setState(e1, "predicting")) ELSE e1

\* A timer callback that forgets the timer and starts no request.
queueTimerCallbackDropsTimer(e) == [e EXCEPT !.queueTimer = FALSE]

\* The callback of startQueueTimer's setTimeout.
queueTimerCallback(e) ==
    LET e1 == [e EXCEPT !.queueTimer = FALSE]
    IN IF e1.state = "queued" THEN predict(setState(e1, "predicting")) ELSE e1

(***************************************************************************)
(* editor/triggers.ts (the second half of src/editor/extension.ts)         *)
(***************************************************************************)
WhitespaceChars == {" ", NL, "\t", "\r"}
PunctuationChars == {".", "!", "?"}

lineFrom(d, pos) == Max({0} \cup {i \in 1..pos : d[i] = NL})
lineTo(d, pos) == Min({Len(d)} \cup {k \in pos..(Len(d) - 1) : d[k + 1] = NL})

\* tr = [inserted, typed]: the text a change inserts and whether the
\* transaction carries the user event input.type
checkTriggers(e, v, tr) ==
    LET d == e.doc[v]
        pos == e.cursor[v]
        charBefore == IF pos > lineFrom(d, pos) THEN Slice(d, pos - 1, pos) ELSE <<>>
        charAfter == IF pos < Len(d) THEN Slice(d, pos, pos + 1) ELSE <<>>
        punctuation ==
            /\ e.settings.triggerOnPunctuation
            /\ charBefore # <<>> /\ charBefore[1] \in PunctuationChars
            /\ \/ charAfter = <<>>
               \/ charAfter[1] \in WhitespaceChars
               \/ pos = lineTo(d, pos)
        newline ==
            /\ e.settings.triggerOnNewline
            /\ tr.typed
            /\ \E k \in 1..Len(tr.inserted) : tr.inserted[k] = NL
    IN IF punctuation THEN trigger(e, v)
       ELSE IF newline THEN trigger(e, v)
       ELSE e

resetIdleTimer(e, v) == [e EXCEPT !.idleTimer[v] = "fresh"]

clearIdleTimer(e, v) == [e EXCEPT !.idleTimer[v] = "none"]

\* The callback of resetIdleTimer's setTimeout.
idleTimerCallback(e, v) ==
    LET e1 == [e EXCEPT !.idleTimer[v] = "none"]
    IN IF e1.settings.enabled /\ ~e1.settings.manualTriggerOnly
       THEN trigger(e1, v) ELSE e1

\* An update() that treats a selection change as an edit.
TriggerPluginUpdateCountsSelection(e, v, tr) ==
    LET e1 == setView(e, v)
    IN IF ~e1.settings.enabled THEN e1
       ELSE IF e1.settings.manualTriggerOnly THEN e1
       ELSE LET e2 == IF tr.docChanged \/ tr.selectionSet
                      THEN LET newLength == Len(e1.doc[v])
                               isTyping == newLength > e1.lastDocLength[v]
                               a == [e1 EXCEPT !.lastDocLength[v] = newLength]
                               b == resetIdleTimer(cancelQueue(a), v)
                           IN IF isTyping THEN checkTriggers(b, v, tr) ELSE b
                      ELSE e1
            IN IF tr.selectionSet /\ ~tr.docChanged THEN dismiss(e2) ELSE e2

\* TriggerPlugin.update for a transaction tr = [docChanged, selectionSet,
\* inserted, typed] already applied to the view state.
TriggerPluginUpdate(e, v, tr) ==
    LET e1 == setView(e, v)
    IN IF ~e1.settings.enabled THEN e1
       ELSE IF e1.settings.manualTriggerOnly THEN e1
       ELSE LET e2 == IF tr.docChanged
                      THEN LET newLength == Len(e1.doc[v])
                               isTyping == newLength > e1.lastDocLength[v]
                               a == [e1 EXCEPT !.lastDocLength[v] = newLength]
                               b == resetIdleTimer(cancelQueue(a), v)
                           IN IF isTyping THEN checkTriggers(b, v, tr) ELSE b
                      ELSE e1
            IN IF tr.selectionSet /\ ~tr.docChanged THEN dismiss(e2) ELSE e2

\* view.dispatch of a user transaction: the new document and selection, the
\* state field update, then the view plugin update. A countdown pending at an
\* edit was started by an earlier edit unless the plugin restarts it.
dispatch(e, v, tr) ==
    LET e1 == [e EXCEPT !.doc[v] = tr.doc, !.cursor[v] = tr.head,
                        !.idleTimer[v] = IF tr.docChanged /\ @ = "fresh"
                                         THEN "stale" ELSE @,
                        !.ghost[v] = ghostTextStateUpdate(e.ghost[v],
                            [effects |-> <<>>, docChanged |-> tr.docChanged,
                             selection |-> tr.selectionSet, head |-> tr.head])]
    IN TriggerPluginUpdate(e1, v, tr)

(***************************************************************************)
(* editor/extension.ts: the Escape key binding                             *)
(***************************************************************************)
escapeKey(e, v) ==
    IF hasSuggestion(e, v) THEN dismiss(clearSuggestion(e, v)) ELSE e

(***************************************************************************)
(* ai/context.ts: extractContext                                           *)
(***************************************************************************)
NewlineSearchLimit == 100

LastIndexOf(s, sub) ==
    LET hits == {i \in 0..Len(s) : StartsWithAt(s, sub, i)}
    IN IF hits = {} THEN -1 ELSE Max(hits)

\* String.prototype.trim
Trim(s) ==
    LET kept == {i \in 1..Len(s) : s[i] \notin WhitespaceChars}
    IN IF kept = {} THEN <<>> ELSE SubSeq(s, Min(kept), Max(kept))

\* String.prototype.split on the line break
RECURSIVE SplitLines(_)
SplitLines(s) ==
    LET i == IndexOf(s, <<NL>>, 0)
    IN IF i = -1 THEN <<s>>
       ELSE <<Slice(s, 0, i)>> \o SplitLines(Slice(s, i + 1, Len(s)))

\* line.match(/^(#{1,6})\s+(.+)$/): {} when the line is no heading, else the
\* level and the trimmed text
headingOf(line) ==
    LET hashes == Min({i \in 0..Len(line) : i = Len(line) \/ line[i + 1] # "#"})
        gap == Min({i \in hashes..Len(line) :
                       i = Len(line) \/ line[i + 1] \notin WhitespaceChars})
        rest == Slice(line, gap, Len(line))
        matches ==
            /\ hashes \in 1..6
            /\ gap > hashes
            /\ IF rest # <<>> THEN \A k \in 1..Len(rest) : rest[k] # "\r"
               ELSE gap > hashes + 1 /\ line[gap] # "\r"
    IN IF matches THEN {[level |-> hashes, text |-> Trim(rest)]} ELSE {}

\* A heading stack that pops deeper headings only, keeping those of the
\* same level.
RECURSIVE headingStackKeepsSiblings(_, _)
headingStackKeepsSiblings(lines, headings) ==
    IF lines = <<>> THEN headings
    ELSE LET h == headingOf(Head(lines))
             level == (CHOOSE x \in h : TRUE).level
             kept == {i \in 1..Len(headings) :
                         \A k \in i..Len(headings) : headings[k].level > level}
             popped == IF kept = {} THEN headings
                       ELSE SubSeq(headings, 1, Min(kept) - 1)
         IN IF h = {} THEN headingStackKeepsSiblings(Tail(lines), headings)
            ELSE headingStackKeepsSiblings(Tail(lines),
                              Append(popped, CHOOSE x \in h : TRUE))

\* the stack of headings after the lines, from the stack headings
RECURSIVE headingStack(_, _)
headingStack(lines, headings) ==
    IF lines = <<>> THEN headings
    ELSE LET h == headingOf(Head(lines))
             level == (CHOOSE x \in h : TRUE).level
             kept == {i \in 1..Len(headings) :
                         \A k \in i..Len(headings) : headings[k].level >= level}
             popped == IF kept = {} THEN headings
                       ELSE SubSeq(headings, 1, Min(kept) - 1)
         IN IF h = {} THEN headingStack(Tail(lines), headings)
            ELSE headingStack(Tail(lines),
                              Append(popped, CHOOSE x \in h : TRUE))

\* headings.map(h => h.text).join(' > ')
RECURSIVE JoinTrail(_)
JoinTrail(headings) ==
    IF headings = <<>> THEN <<>>
    ELSE IF Len(headings) = 1 THEN headings[1].text
    ELSE headings[1].text \o <<" ", ">", " ">> \o JoinTrail(Tail(headings))

extractHeadingTrail(d, cursorPosition) ==
    JoinTrail(headingStack(SplitLines(Slice(d, 0, cursorPosition)), <<>>))

\* An extractContext that gives the suffix the whole budget.
extractContextFullSuffix(d, cursorPosition, contextChars, includeHeadingTrail) ==
    LET prefixStart == Max({0, cursorPosition - contextChars})
        prefix0 == Slice(d, prefixStart, cursorPosition)
        firstNewline == IndexOf(prefix0, <<NL>>, 0)
        prefix == IF prefixStart > 0 /\ firstNewline > 0
                     /\ firstNewline < NewlineSearchLimit
                  THEN Slice(prefix0, firstNewline + 1, Len(prefix0))
                  ELSE prefix0
        suffixEnd == Min({Len(d), cursorPosition + contextChars})
        suffix0 == Slice(d, cursorPosition, suffixEnd)
        lastNewline == LastIndexOf(suffix0, <<NL>>)
        suffix == IF suffixEnd < Len(d) /\ lastNewline > 0
                  THEN Slice(suffix0, 0, lastNewline)
                  ELSE suffix0
    IN [prefix |-> prefix,
        suffix |-> suffix,
        headingTrail |-> IF includeHeadingTrail
                         THEN extractHeadingTrail(d, cursorPosition) ELSE <<>>,
        cursorPosition |-> cursorPosition]

extractContext(d, cursorPosition, contextChars, includeHeadingTrail) ==
    LET prefixStart == Max({0, cursorPosition - contextChars})
        prefix0 == Slice(d, prefixStart, cursorPosition)
        firstNewline == IndexOf(prefix0, <<NL>>, 0)
        prefix == IF prefixStart > 0 /\ firstNewline > 0
                     /\ firstNewline < NewlineSearchLimit
                  THEN Slice(prefix0, firstNewline + 1, Len(prefix0))
                  ELSE prefix0
        suffixEnd == Min({Len(d), cursorPosition + (contextChars \div 3)})
        suffix0 == Slice(d, cursorPosition, suffixEnd)
        lastNewline == LastIndexOf(suffix0, <<NL>>)
        suffix == IF suffixEnd < Len(d) /\ lastNewline > 0
                  THEN Slice(suffix0, 0, lastNewline)
                  ELSE suffix0
    IN [prefix |-> prefix,
        suffix |-> suffix,
        headingTrail |-> IF includeHeadingTrail
                         THEN extractHeadingTrail(d, cursorPosition) ELSE <<>>,
        cursorPosition |-> cursorPosition]

(***************************************************************************)
(* ai/provider.ts: transformCase                                           *)
(***************************************************************************)
SuggestionCases == {"none", "lower", "firstLower"}

\* String.prototype.toLowerCase, one character
LowerChar(c) == IF c = "A" THEN "a" ELSE c

toLowerCase(text) == [i \in 1..Len(text) |-> LowerChar(text[i])]

\* A transformCase whose first-letter policy lowers the first capital it finds
transformCaseFirstCapital(text, caseType) ==
    IF text = <<>> \/ caseType = "none" THEN text
    ELSE IF caseType = "lower" THEN toLowerCase(text)
    ELSE IF caseType = "firstLower"
         THEN LET capitals == {i \in 1..Len(text) : text[i] # LowerChar(text[i])}
              IN IF capitals = {} THEN text
                 ELSE [text EXCEPT ![Min(capitals)] = LowerChar(@)]
    ELSE text

transformCase(text, caseType) ==
    IF text = <<>> \/ caseType = "none" THEN text
    ELSE IF caseType = "lower" THEN toLowerCase(text)
    ELSE IF caseType = "firstLower"
         THEN IF Len(text) = 1 \/ text[2] = LowerChar(text[2])
              THEN <<LowerChar(text[1])>> \o Slice(text, 1, Len(text))
              ELSE text
    ELSE text

NoCall == [fn |-> "none"]

(***************************************************************************)
(* Initial state: the plugin is loaded, the engine constructed, the views  *)
(* opened.                                                                 *)
(***************************************************************************)
InitDocs == {<<>>}

Settings == [enabled : BOOLEAN, manualTriggerOnly : BOOLEAN]

InitWith(vs) ==
    /\ views = vs
    /\ doc \in [vs -> InitDocs]
    /\ cursor \in [vs -> 0..MaxDocLen]
    /\ \A v \in vs : cursor[v] <= Len(doc[v])
    /\ ghost = [v \in vs |-> {}]
    /\ lastDocLength = [v \in vs |-> Len(doc[v])]
    /\ idleTimer = [v \in vs |-> "none"]
    /\ raf = [v \in vs |-> FALSE]
    /\ settings \in Settings
    /\ state = IF settings.enabled THEN "idle" ELSE "disabled"
    /\ queueTimer = FALSE
    /\ orphanTimers = 0
    /\ currentView \in vs
    /\ abortController = FALSE
    /\ requests = EmptyBag
    /\ call = NoCall
    /\ loaded = TRUE

Init == InitWith({1})

(***************************************************************************)
(* Actions: one per task of the event loop                                 *)
(***************************************************************************)
AnyOptions == CHOOSE o \in Options : TRUE

\* The transaction of character c inserted at the cursor.
Typing(v, c, typed, o) ==
    /\ Install(dispatch(Cur(o), v,
           [doc |-> Slice(doc[v], 0, cursor[v]) \o <<c>>
                       \o Slice(doc[v], cursor[v], Len(doc[v])),
            head |-> cursor[v] + 1, docChanged |-> TRUE, selectionSet |-> TRUE,
            inserted |-> <<c>>, typed |-> typed]))
    /\ UNCHANGED <<views, settings>>

\* The user types character c at the cursor.
InsertText(v, c, typed, o) ==
    /\ Len(doc[v]) < MaxDocLen
    /\ Typing(v, c, typed, o)

\* Backspace: the character before the cursor is deleted.
Backspace(v, o) ==
    /\ cursor[v] > 0
    /\ Install(dispatch(Cur(o), v,
           [doc |-> Slice(doc[v], 0, cursor[v] - 1)
                       \o Slice(doc[v], cursor[v], Len(doc[v])),
            head |-> cursor[v] - 1, docChanged |-> TRUE, selectionSet |-> TRUE,
            inserted |-> <<>>, typed |-> FALSE]))
    /\ UNCHANGED <<views, settings>>

\* Delete: the character after the cursor is deleted, the cursor stays.
DeleteForward(v, o) ==
    /\ cursor[v] < Len(doc[v])
    /\ Install(dispatch(Cur(o), v,
           [doc |-> Slice(doc[v], 0, cursor[v])
                       \o Slice(doc[v], cursor[v] + 1, Len(doc[v])),
            head |-> cursor[v], docChanged |-> TRUE, selectionSet |-> FALSE,
            inserted |-> <<>>, typed |-> FALSE]))
    /\ UNCHANGED <<views, settings>>

\* A transaction that sets the selection and changes no text; the head may
\* stay where it is (select-all with the cursor at the end of the document).
SelectionChange(v, h) ==
    /\ h \in 0..Len(doc[v])
    /\ Install(dispatch(Cur(AnyOptions), v,
           [doc |-> doc[v], head |-> h, docChanged |-> FALSE,
            selectionSet |-> TRUE, inserted |-> <<>>, typed |-> FALSE]))
    /\ UNCHANGED <<views, settings>>

EscapeKey(v) ==
    /\ hasSuggestion(Cur(AnyOptions), v)
    /\ Install(escapeKey(Cur(AnyOptions), v))
    /\ UNCHANGED <<views, settings>>

\* main.ts, command dismiss-suggestion
DismissCommand ==
    /\ loaded
    /\ Install(dismiss(Cur(AnyOptions)))
    /\ UNCHANGED <<views, settings>>

\* main.ts, command trigger-suggestion
ManualTriggerCommand(v, o) ==
    /\ loaded
    /\ Install(manualTrigger(Cur(o), v))
    /\ UNCHANGED <<views, settings>>

\* main.ts toggle-enabled and the settings tab: the shared settings object is
\* mutated, then saveSettings() awaits saveData() (see SaveDone).
ChangeSetting(f) ==
    /\ settings' = [settings EXCEPT ![f] = ~@]
    /\ UNCHANGED <<views, doc, cursor, ghost, lastDocLength, idleTimer, raf,
                   state, queueTimer, orphanTimers, currentView,
                   abortController, requests, call, loaded>>

\* saveData() resolved: saveSettings() calls stateMachine.updateSettings.
\* updateSettings only acts when settings.enabled disagrees with the phase,
\* and they only come to disagree by a change of settings.enabled, which is
\* followed by this call; a call with nothing to do is left out.
SaveDone ==
    /\ loaded
    /\ settings.enabled # (state # "disabled")
    /\ Install(updateSettings(Cur(AnyOptions)))
    /\ UNCHANGED <<views, settings>>

\* A pending delay timer fires: the one queueTimer references, or an orphan.
QueueTimerFire(o) ==
    /\ \/ /\ queueTimer
          /\ Install(queueTimerCallback(Cur(o)))
       \/ /\ orphanTimers > 0
          /\ Install(queueTimerCallback(
                 [Cur(o) EXCEPT !.orphanTimers =
                      IF queueTimer THEN @ ELSE @ - 1]))
    /\ UNCHANGED <<views, settings>>

IdleTimerFire(v) ==
    /\ idleTimer[v] # "none"
    /\ Install(idleTimerCallback(Cur(AnyOptions), v))
    /\ UNCHANGED <<views, settings>>

\* A completion request settles: an aborted one with null, another with null
\* (error, empty body) or with text.
RequestSettle(r, suggestion) ==
    /\ BagIn(r, requests)
    /\ r.controller = "aborted" => suggestion = ""
    /\ Install(predictResume(Cur(AnyOptions), r, suggestion))
    /\ UNCHANGED <<views, settings>>

\* The animation frame callback scheduled by dismiss().
AnimationFrame(v) ==
    /\ raf[v]
    /\ Install(clearSuggestion([Cur(AnyOptions) EXCEPT !.raf[v] = FALSE], v))
    /\ UNCHANGED <<views, settings>>

Next ==
    \/ \E v \in views, c \in TypedChars, typed \in BOOLEAN, o \in EditOptions :
          InsertText(v, c, typed, o)
    \/ \E v \in views, o \in EditOptions : Backspace(v, o)
    \/ \E v \in views, o \in EditOptions : DeleteForward(v, o)
    \/ \E v \in views, h \in 0..MaxDocLen : SelectionChange(v, h)
    \/ \E v \in views : EscapeKey(v)
    \/ DismissCommand
    \/ \E v \in views, o \in RequestOptions : ManualTriggerCommand(v, o)
    \/ \E f \in SettingNames : ChangeSetting(f)
    \/ SaveDone
    \/ \E o \in RequestOptions : QueueTimerFire(o)
    \/ \E v \in views : IdleTimerFire(v)
    \/ \E r \in BagToSet(requests), s \in Texts \cup {""} : RequestSettle(r, s)
    \/ \E v \in views : AnimationFrame(v)

Spec == Init /\ [][Next]_vars

(***************************************************************************)
(* Documents with suggestion-ineligible regions: a view opened on a note   *)
(* that begins with a code fence or a front-matter delimiter line, into    *)
(* which the user types one character.                                     *)
(***************************************************************************)
FenceDoc == <<TICK, TICK, TICK, NL>>
FrontmatterDoc == <<"-", "-", "-", NL>>
RegionDocs == {FenceDoc, FrontmatterDoc}
MaxRegionLen == 5

RegionInit ==
    /\ views = {1}
    /\ doc \in [views -> RegionDocs]
    /\ cursor \in [views -> 0..MaxRegionLen]
    /\ \A v \in views : cursor[v] <= Len(doc[v])
    /\ ghost = [v \in views |-> {}]
    /\ lastDocLength = [v \in views |-> Len(doc[v])]
    /\ idleTimer = [v \in views |-> "none"]
    /\ raf = [v \in views |-> FALSE]
    /\ settings \in Settings
    /\ state = IF settings.enabled THEN "idle" ELSE "disabled"
    /\ queueTimer = FALSE
    /\ orphanTimers = 0
    /\ currentView \in views
    /\ abortController = FALSE
    /\ requests = EmptyBag
    /\ call = NoCall
    /\ loaded = TRUE

\* The user types character c at the cursor of a note as it was opened.
InsertIntoRegionDoc(v, c, typed, o) ==
    /\ doc[v] \in RegionDocs
    /\ Typing(v, c, typed, o)

RegionNext ==
    \/ \E v \in views, c \in TypedChars, typed \in BOOLEAN, o \in EditOptions :
          InsertIntoRegionDoc(v, c, typed, o)
    \/ \E v \in views, h \in 0..MaxRegionLen : SelectionChange(v, h)
    \/ \E v \in views : EscapeKey(v)
    \/ DismissCommand
    \/ \E v \in views, o \in RequestOptions : ManualTriggerCommand(v, o)
    \/ \E o \in RequestOptions : QueueTimerFire(o)
    \/ \E v \in views : IdleTimerFire(v)
    \/ \E r \in BagToSet(requests), s \in Texts \cup {""} : RequestSettle(r, s)
    \/ \E v \in views : AnimationFrame(v)

RegionSpec == RegionInit /\ [][RegionNext]_vars

(***************************************************************************)
(* Teardown: the plugin is unloaded at some point of its life. The commands *)
(* and the editor extension are registered for the lifetime of the plugin,  *)
(* so that after the unload only callbacks scheduled before it still run.   *)
(***************************************************************************)
RECURSIVE removeExtension(_, _)
\* The editor extension leaves the views vs: the state field is dropped with
\* its decoration and TriggerPlugin.destroy() runs.
removeExtension(e, vs) ==
    IF vs = {} THEN e
    ELSE LET v == CHOOSE w \in vs : TRUE
         IN removeExtension(clearIdleTimer([e EXCEPT !.ghost[v] = {}], v),
                            vs \ {v})

\* main.ts onunload
onunload(e) == [destroy(e) EXCEPT !.loaded = FALSE]

Unload ==
    /\ loaded
    /\ Install(onunload(removeExtension(Cur(AnyOptions), views)))
    /\ UNCHANGED <<views, settings>>

TeardownNext ==
    \/ \E v \in views, c \in TypedChars, typed \in BOOLEAN, o \in EditOptions :
          loaded /\ InsertText(v, c, typed, o)
    \/ \E v \in views, h \in 0..MaxDocLen : loaded /\ SelectionChange(v, h)
    \/ \E v \in views : loaded /\ EscapeKey(v)
    \/ DismissCommand
    \/ \E v \in views, o \in RequestOptions : ManualTriggerCommand(v, o)
    \/ Unload
    \/ \E o \in RequestOptions : QueueTimerFire(o)
    \/ \E v \in views : IdleTimerFire(v)
    \/ \E r \in BagToSet(requests), s \in Texts \cup {""} : RequestSettle(r, s)
    \/ \E v \in views : AnimationFrame(v)

TeardownSpec == Init /\ [][TeardownNext]_vars

(***************************************************************************)
(* Two panes: two editor views, each on its own note and each with its own  *)
(* state field and trigger plugin, share the one engine of the plugin. The  *)
(* plugin is enabled and in automatic mode.                                 *)
(***************************************************************************)
MaxPaneLen == 1
PaneChars == {"a", "."}

TwoViewInit ==
    /\ InitWith({1, 2})
    /\ settings = [enabled |-> TRUE, manualTriggerOnly |-> FALSE]

\* The user types character c at the cursor of pane v.
InsertIntoPane(v, c, typed, o) ==
    /\ Len(doc[v]) < MaxPaneLen
    /\ Typing(v, c, typed, o)

TwoViewNext ==
    \/ \E v \in views, c \in PaneChars, typed \in BOOLEAN, o \in EditOptions :
          InsertIntoPane(v, c, typed, o)
    \/ \E v \in views, h \in 0..MaxPaneLen : SelectionChange(v, h)
    \/ \E v \in views : EscapeKey(v)
    \/ DismissCommand
    \/ \E v \in views, o \in RequestOptions : ManualTriggerCommand(v, o)
    \/ \E o \in RequestOptions : QueueTimerFire(o)
    \/ \E v \in views : IdleTimerFire(v)
    \/ \E r \in BagToSet(requests), s \in Texts \cup {""} : RequestSettle(r, s)
    \/ \E v \in views : AnimationFrame(v)

TwoViewSpec == TwoViewInit /\ [][TwoViewNext]_vars

(***************************************************************************)
(* Progress: the timers and the requests under fairness. Every pending      *)
(* delay timer eventually fires (setTimeout) and every issued request       *)
(* eventually settles (complete() resolves on a response, an error or an    *)
(* abort); nothing is assumed of the user. The settings are those the       *)
(* plugin was loaded with.                                                  *)
(***************************************************************************)
RequestRecords == [view : {1}, cursorPosition : 0..MaxDocLen,
                   controller : {"held", "aborted", "lost"}]

\* a task the user has no part in: a timer callback, the settling of a
\* request, an animation frame
SystemStep ==
    \/ \E o \in RequestOptions : QueueTimerFire(o)
    \/ \E v \in views : IdleTimerFire(v)
    \/ \E r \in BagToSet(requests), s \in Texts \cup {""} : RequestSettle(r, s)
    \/ \E v \in views : AnimationFrame(v)

ProgressNext ==
    \/ \E v \in views, c \in TypedChars, typed \in BOOLEAN, o \in EditOptions :
          InsertText(v, c, typed, o)
    \/ \E v \in views, h \in 0..MaxDocLen : SelectionChange(v, h)
    \/ \E v \in views : EscapeKey(v)
    \/ DismissCommand
    \/ \E v \in views, o \in RequestOptions : ManualTriggerCommand(v, o)
    \/ \E o \in RequestOptions : QueueTimerFire(o)
    \/ \E v \in views : IdleTimerFire(v)
    \/ \E r \in BagToSet(requests), s \in Texts \cup {""} : RequestSettle(r, s)
    \/ \E v \in views : AnimationFrame(v)

ProgressSpec ==
    /\ Init /\ [][ProgressNext]_vars
    /\ WF_vars(\E o \in RequestOptions : QueueTimerFire(o))
    /\ \A r \in RequestRecords :
          WF_vars(\E s \in Texts \cup {""} : RequestSettle(r, s))

(***************************************************************************)
(* The pure helpers, called on documents, cursor offsets, budgets and      *)
(* completion texts drawn from bounded sets.                               *)
(***************************************************************************)
IntroDoc == <<"#", " ", "I", "n", "t", "r", "o", NL,
              "T", "h", "e", " ", "p", "l", "a", "n", " ",
              "i", "s", " ", "s", "o", "l", "i", "d", ".">>
NestedDoc == <<"#", " ", "A", NL, "#", "#", " ", "B", NL, "x", NL,
               "#", " ", "C", NL, NL, "y">>
\* a first line longer than the newline search limit
LongLineLen == 101
LongDoc == [i \in 1..(LongLineLen + 2) |->
               IF i = LongLineLen + 1 THEN NL ELSE "a"]
\* lines that are no headings (no blank after the marks, seven marks) among
\* headings that skip levels
MarksDoc == <<"#", "#", "#", " ", "D", NL, "#", "x", NL,
              "#", "#", "#", "#", "#", "#", "#", " ", "E", NL,
              "#", "#", " ", "F", NL, "#", "#", "#", "#", " ", "G">>
\* a front-matter block with one line, and an empty one, each followed by text
ClosedFrontDoc == <<"-", "-", "-", NL, "a", NL, "-", "-", "-", NL, "b", ".">>
EmptyFrontDoc == <<"-", "-", "-", NL, "-", "-", "-", NL, "b", ".">>
HelperDocs == {<<>>, IntroDoc, NestedDoc, MarksDoc, LongDoc,
               ClosedFrontDoc, EmptyFrontDoc}
Budgets == {0, 1, 4, 9, 20, 102}
MaxTextLen == 3
TextChars == {"A", "a", "1"}
CompletionTexts == UNION {[1..n -> TextChars] : n \in 0..MaxTextLen}

HelperInit ==
    /\ views = {1}
    /\ doc \in [views -> HelperDocs]
    /\ cursor \in [views -> 0..(LongLineLen + 2)]
    /\ \A v \in views : cursor[v] <= Len(doc[v])
    /\ ghost = [v \in views |-> {}]
    /\ lastDocLength = [v \in views |-> Len(doc[v])]
    /\ idleTimer = [v \in views |-> "none"]
    /\ raf = [v \in views |-> FALSE]
    /\ settings = [enabled |-> TRUE, manualTriggerOnly |-> FALSE]
    /\ state = IF settings.enabled THEN "idle" ELSE "disabled"
    /\ queueTimer = FALSE
    /\ orphanTimers = 0
    /\ currentView \in views
    /\ abortController = FALSE
    /\ requests = EmptyBag
    /\ call = NoCall
    /\ loaded = TRUE

\* predict() builds the context of the request it is about to issue.
CallExtractContext(v, contextChars, includeHeadingTrail) ==
    /\ call' = [fn |-> "extractContext",
                doc |-> doc[v],
                cursorPosition |-> cursor[v],
                contextChars |-> contextChars,
                includeHeadingTrail |-> includeHeadingTrail,
                result |-> extractContext(doc[v], cursor[v], contextChars,
                                          includeHeadingTrail)]
    /\ UNCHANGED <<views, doc, cursor, ghost, lastDocLength, idleTimer, raf,
                   settings, state, queueTimer, orphanTimers, currentView,
                   abortController, requests, loaded>>

\* complete() applies the case policy to the cleaned completion text.
CallTransformCase(text, caseType) ==
    /\ call' = [fn |-> "transformCase",
                text |-> text,
                caseType |-> caseType,
                result |-> transformCase(text, caseType)]
    /\ UNCHANGED <<views, doc, cursor, ghost, lastDocLength, idleTimer, raf,
                   settings, state, queueTimer, orphanTimers, currentView,
                   abortController, requests, loaded>>

\* trigger() and manualTrigger() ask whether the cursor is in front matter.
CallIsInFrontmatter(v) ==
    /\ call' = [fn |-> "isInFrontmatter",
                doc |-> doc[v],
                cursorPosition |-> cursor[v],
                result |-> isInFrontmatter(doc[v], cursor[v])]
    /\ UNCHANGED <<views, doc, cursor, ghost, lastDocLength, idleTimer, raf,
                   settings, state, queueTimer, orphanTimers, currentView,
                   abortController, requests, loaded>>

HelperNext ==
    \/ \E v \in views : CallIsInFrontmatter(v)
    \/ \E v \in views, b \in Budgets, t \in BOOLEAN : CallExtractContext(v, b, t)
    \/ \E t \in CompletionTexts, c \in SuggestionCases : CallTransformCase(t, c)

HelperSpec == HelperInit /\ [][HelperNext]_vars

(***************************************************************************)
(* Properties                                                              *)
(***************************************************************************)
Outcomes == Texts \cup {""}

\* the requests that are in flight: issued, not settled, not aborted
InFlight(reqs) ==
    LET live == {q \in BagToSet(reqs) : q.controller # "aborted"}
    IN BagCardinality([q \in live |-> reqs[q]])

OverlayShown == \E v \in views : ghost[v] # {}

\* C1: in every reachable state the overlay holds a suggestion if and only
\* if the engine phase is suggesting.
C1_OverlayIffSuggesting == OverlayShown <=> (state = "suggesting")

\* C2: at any time at most one completion request is in flight.
C2_AtMostOneInFlight == InFlight(requests) <= 1

\* C3: the settling of a request that a newer trigger has superseded (it is
\* no longer the provider's current request, and a newer delay timer or a
\* newer request is pending) changes neither the phase nor the overlay, and
\* the newer request stays the provider's current one.
C3_StaleSettleIsNoOp ==
    [][\A r \in BagToSet(requests), s \in Outcomes :
          (/\ r.controller # "held"
           /\ (queueTimer \/ abortController)
           /\ RequestSettle(r, s))
          => (/\ state' = state
              /\ ghost' = ghost
              /\ abortController' = abortController)]_vars

\* C4 as stated: a request whose captured cursor offset differs from the
\* live cursor offset when it settles produces no overlay, and the phase
\* becomes idle.
C4_MovedCursorDiscardsAndIdles ==
    [][\A r \in BagToSet(requests), s \in Outcomes :
          (cursor[r.view] # r.cursorPosition /\ RequestSettle(r, s))
          => (ghost' = ghost /\ state' = "idle")]_vars

\* C4 amended: a request whose captured cursor offset differs from the live
\* cursor offset when it settles produces no overlay; the phase becomes idle
\* when the request is the one the engine is predicting for, and a phase
\* other than predicting is left as it is.
C4_MovedCursorDiscards ==
    [][\A r \in BagToSet(requests), s \in Outcomes :
          (cursor[r.view] # r.cursorPosition /\ RequestSettle(r, s))
          => (/\ ghost' = ghost
              /\ (state = "predicting" /\ r.controller = "held")
                    => state' = "idle"
              /\ state # "predicting" => state' = state)]_vars

\* C4 witness: the engine is predicting for a live request whose captured
\* offset is no longer the cursor offset.
C4_Witness ==
    /\ state = "predicting"
    /\ \E r \in BagToSet(requests) :
          r.controller = "held" /\ cursor[r.view] # r.cursorPosition

\* C5: an edit made while the engine is predicting takes it out of predicting
\* (to idle, or to queued when the edit itself triggers) and cancels every
\* request, so that no request issued before the edit can render.
C5_EditWhilePredictingCancels ==
    [][(state = "predicting" /\ doc' # doc)
          => (/\ state' \in {"idle", "queued"}
              /\ InFlight(requests') = 0)]_vars

\* C6: an edit made while the engine is queued, predicting or suggesting
\* resets it (old delay timer cancelled, requests cancelled, overlay cleared)
\* before the edit's immediate triggers run: afterwards the engine is idle
\* with no timer, or queued with exactly the one timer the trigger started.
C6_EditResetsFirst ==
    [][(state \in {"queued", "predicting", "suggesting"} /\ doc' # doc)
          => (/\ ~OverlayShown'
              /\ InFlight(requests') = 0
              /\ orphanTimers' = 0
              /\ \/ state' = "idle" /\ ~queueTimer'
                 \/ state' = "queued" /\ queueTimer')]_vars

\* C7: no operation of the engine, the trigger detector or the overlay
\* changes the document text or the cursor position of any view.
C7_OperationsKeepDocument ==
    \A v \in views, o \in Options :
        LET e == Cur(o)
            results ==
                {trigger(e, v), manualTrigger(e, v), cancelQueue(e), dismiss(e),
                 disable(e), enable(e), updateSettings(e), predict(e),
                 queueTimerCallback(e), idleTimerCallback(e, v),
                 resetIdleTimer(e, v), escapeKey(e, v), clearSuggestion(e, v),
                 checkTriggers(e, v, [inserted |-> <<NL>>, typed |-> TRUE])}
                \cup {showSuggestion(e, v, t) : t \in Texts}
                \cup {predictResume(e, r, s) : r \in BagToSet(requests),
                                               s \in Outcomes}
        IN \A f \in results : f.doc = doc /\ f.cursor = cursor

\* C7 witness: a suggestion is shown over a non-empty document.
C7_Witness == \E v \in views : ghost[v] # {} /\ doc[v] # <<>>

\* the transactions the state field can see
Transactions ==
    [effects : {<<>>, <<{}>>} \cup
               {<<{[text |-> t, position |-> p]}>> : t \in Texts, p \in 0..MaxDocLen},
     docChanged : BOOLEAN, selection : BOOLEAN, head : 0..MaxDocLen]

\* C8: the overlay is removed by every transaction that changes the document
\* (even one carrying a show effect) and by every selection change whose head
\* differs from the anchor; whenever the overlay holds a suggestion its anchor
\* offset is the live cursor offset.
C8_OverlayAnchoredAtCursor ==
    \A v \in views :
        /\ \A g \in ghost[v] : g.position = cursor[v]
        /\ \A tr \in Transactions :
              LET after == ghostTextStateUpdate(ghost[v], tr)
              IN /\ tr.docChanged => after = {}
                 /\ tr.selection => \A g \in after : g.position = tr.head

\* C8 witness: an overlay is shown away from offset 0.
C8_Witness == \E v \in views : \E g \in ghost[v] : g.position > 0

\* C9: when a suggestion is shown and the cursor moves to another offset
\* without an edit, the overlay is cleared, the phase becomes idle, no request
\* is issued and no timer is left pending that would issue one by itself.
C9_CursorMoveDismisses ==
    [][\A v \in views :
          (/\ ghost[v] # {} /\ state = "suggesting"
           /\ doc' = doc /\ cursor'[v] # cursor[v])
          => (/\ ghost'[v] = {}
              /\ state' = "idle"
              /\ ~queueTimer'
              /\ \A w \in views : idleTimer'[w] = "none"
              /\ InFlight(requests') = InFlight(requests))]_vars

\* C10: a manual trigger in a phase other than disabled (here with the
\* credential configured and the cursor outside fenced code and front matter)
\* cancels the pending delay timer and every in-flight request, puts the
\* engine in predicting and issues exactly one request at the cursor offset.
C10_ManualTriggerPredicts ==
    [][\A v \in views, o \in RequestOptions :
          (/\ state # "disabled"
           /\ o.apiKey
           /\ ~isInCodeBlock(doc[v], cursor[v])
           /\ ~isInFrontmatter(doc[v], cursor[v])
           /\ ManualTriggerCommand(v, o))
          => (/\ state' = "predicting"
              /\ ~queueTimer'
              /\ InFlight(requests') = 1
              /\ \E r \in BagToSet(requests') :
                    /\ r.controller = "held"
                    /\ r.view = v
                    /\ r.cursorPosition = cursor[v])]_vars

\* whether trigger() refuses: disabled, manual-only, or the cursor in a
\* suggestion-ineligible region
Refused(e, v) ==
    \/ e.state = "disabled"
    \/ e.settings.manualTriggerOnly
    \/ isInCodeBlock(e.doc[v], e.cursor[v])
    \/ isInFrontmatter(e.doc[v], e.cursor[v])

\* C11: an automatic trigger made when the engine is disabled, the
\* manual-only flag is set, or the cursor is in a fenced code region or a
\* leading front-matter block leaves the phase, the delay timer, the
\* in-flight request and the overlay as they were.
C11_RefusedTriggerChangesNothing ==
    \A v \in views, o \in Options :
        LET e == Cur(o)
            f == trigger(e, v)
        IN Refused(e, v)
              => /\ f.state = state
                 /\ f.queueTimer = queueTimer
                 /\ f.orphanTimers = orphanTimers
                 /\ f.requests = requests
                 /\ f.abortController = abortController
                 /\ f.ghost = ghost

\* C11 witness: a delay timer is pending or a suggestion is shown while the
\* cursor is inside a fenced code region or the front matter.
C11_Witness ==
    \E v \in views :
        /\ state \in {"queued", "suggesting"}
        /\ ~settings.manualTriggerOnly
        /\ isInCodeBlock(doc[v], cursor[v]) \/ isInFrontmatter(doc[v], cursor[v])

\* the cursor is past the opening fence of a fenced block that begins at
\* offset 0 and is not terminated
InUnterminatedFence(d, pos) ==
    /\ StartsWithAt(d, <<TICK, TICK, TICK>>, 0)
    /\ pos >= 3
    /\ ~\E i \in 1..Len(d) : d[i] = NL /\ StartsWithAt(d, <<TICK, TICK, TICK>>, i)

\* C12: while the cursor is inside an unterminated fenced block that begins
\* at offset 0, an edit (punctuation or newline trigger, whatever their
\* settings) or an idle timeout leaves an idle engine idle, starts no delay
\* timer and issues no request.
C12_NoTriggerInsideFence ==
    [][\A v \in views :
          (/\ state = "idle"
           /\ InUnterminatedFence(doc'[v], cursor'[v])
           /\ doc' # doc \/ IdleTimerFire(v))
          => (/\ state' = "idle"
              /\ ~queueTimer'
              /\ requests' = requests)]_vars

\* C12 witness: in automatic mode the user has typed inside the fenced block
\* and the idle countdown of that edit is pending.
C12_Witness ==
    \E v \in views :
        /\ InUnterminatedFence(doc[v], cursor[v])
        /\ Len(doc[v]) > Len(FenceDoc)
        /\ idleTimer[v] # "none"
        /\ state = "idle"
        /\ settings.enabled /\ ~settings.manualTriggerOnly

\* C13: after disable() (run by updateSettings when the enabled setting is
\* off) the engine is disabled, no delay timer is pending, no request is in
\* flight and no overlay is shown.
C13_DisableCancelsEverything ==
    [][(SaveDone /\ ~settings.enabled)
          => (/\ state' = "disabled"
              /\ ~queueTimer'
              /\ orphanTimers' = 0
              /\ InFlight(requests') = 0
              /\ ~OverlayShown')]_vars

\* C14: the engine starts idle, or disabled when enabled is off; while it is
\* disabled no step other than the enabling one changes the phase, issues a
\* request or shows an overlay; the enabling step makes it idle, and enable()
\* in any other phase changes nothing.
C14_DisabledIsInert ==
    /\ state = IF settings.enabled THEN "idle" ELSE "disabled"
    /\ [][/\ ((state = "disabled" /\ ~SaveDone)
                 => (/\ state' = "disabled"
                     /\ \A r \in BagToSet(requests') :
                           CopiesIn(r, requests') <= CopiesIn(r, requests)
                     /\ ~queueTimer'
                     /\ \A v \in views : ghost'[v] \subseteq ghost[v]))
           /\ ((state = "disabled" /\ SaveDone) => (state' = "idle"))
           /\ (\A o \in Options :
                  (state # "disabled") => (enable(Cur(o)) = Cur(o)))]_vars

\* C14 witness: the engine is disabled while an uncancelled request is still
\* pending and the enabled setting is on again, its save not yet completed.
C14_Witness ==
    /\ state = "disabled"
    /\ settings.enabled
    /\ requests # EmptyBag

\* no request is added to those pending
NoRequestIssued == BagCardinality(requests') <= BagCardinality(requests)

\* C15: a request that settles with absence (error, empty body,
\* cancellation) shows no overlay and issues nothing, and the phase becomes
\* idle when it is the provider's current request; without a credential a
\* manual trigger or a delay-timer expiry issues no request, shows no overlay
\* and leaves the engine idle or in the phase it was in.
C15_AbsenceReturnsToIdle ==
    [][/\ (\A r \in BagToSet(requests) :
              RequestSettle(r, "")
                 => (/\ ghost' = ghost
                     /\ NoRequestIssued
                     /\ (r.controller = "held") => (state' = "idle")))
       /\ (\A v \in views, o \in RequestOptions :
              (~o.apiKey /\ (ManualTriggerCommand(v, o) \/ QueueTimerFire(o)))
                 => (/\ NoRequestIssued
                     /\ \A w \in views : ghost'[w] \subseteq ghost[w]
                     /\ state' \in {"idle", state}))]_vars

\* C15 witness: the engine is predicting for the provider's current request
\* and the cursor is still at the captured offset, so that only the outcome
\* of the request decides what is shown.
C15_Witness ==
    /\ state = "predicting"
    /\ abortController
    /\ \E r \in BagToSet(requests) :
          r.controller = "held" /\ cursor[r.view] = r.cursorPosition

\* C16: an edit made while an idle countdown is pending in the view cancels
\* it and starts a new one, so that the pending countdown is always the one
\* of the last edit; a countdown that elapses is no longer pending and
\* requests the automatic trigger once: an enabled engine in automatic mode
\* with the cursor in an eligible place becomes queued with one delay timer.
C16_EditRestartsIdleCountdown ==
    [][\A v \in views :
          /\ (doc'[v] # doc[v] /\ idleTimer[v] # "none")
                => (idleTimer'[v] = "fresh")
          /\ (/\ IdleTimerFire(v)
              /\ settings.enabled /\ ~settings.manualTriggerOnly
              /\ state # "disabled"
              /\ ~isInCodeBlock(doc[v], cursor[v])
              /\ ~isInFrontmatter(doc[v], cursor[v]))
                => (/\ idleTimer'[v] = "none"
                    /\ state' = "queued"
                    /\ queueTimer'
                    /\ orphanTimers' = 0)]_vars

\* C17: with the punctuation trigger enabled, in automatic mode on an
\* enabled engine and outside fenced code and front matter, typing one of
\* . ! ? makes the engine queued with its delay timer started if and only if
\* no character follows the typed one or a whitespace character does (which
\* includes the typed character ending its line).
C17_PunctuationTrigger ==
    [][\A v \in views, c \in PunctuationChars, typed \in BOOLEAN,
          o \in EditOptions :
          (/\ InsertText(v, c, typed, o)
           /\ o.triggerOnPunctuation
           /\ settings.enabled /\ ~settings.manualTriggerOnly
           /\ state # "disabled"
           /\ ~isInCodeBlock(doc'[v], cursor'[v])
           /\ ~isInFrontmatter(doc'[v], cursor'[v]))
          => ((state' = "queued" /\ queueTimer')
                <=> (\/ cursor'[v] = Len(doc'[v])
                     \/ doc'[v][cursor'[v] + 1] \in WhitespaceChars))]_vars

IsSuffixOf(s, t) == Len(s) <= Len(t) /\ s = SubSeq(t, Len(t) - Len(s) + 1, Len(t))

IsPrefixOf(s, t) == Len(s) <= Len(t) /\ s = SubSeq(t, 1, Len(s))

\* C18: in the context extracted for (document, cursor offset, budget B,
\* trail flag), which is a function of these four inputs, the prefix is a
\* contiguous piece of the text that ends at the cursor, of length at most B,
\* and the suffix a contiguous piece of the text that starts at the cursor,
\* of length at most B div 3.
C18_ContextWindow ==
    call.fn = "extractContext"
       => /\ IsSuffixOf(call.result.prefix,
                        Slice(call.doc, 0, call.cursorPosition))
          /\ Len(call.result.prefix) <= call.contextChars
          /\ IsPrefixOf(call.result.suffix,
                        Slice(call.doc, call.cursorPosition, Len(call.doc)))
          /\ Len(call.result.suffix) <= call.contextChars \div 3
          /\ call.result.cursorPosition = call.cursorPosition

\* C18 witness: a context whose prefix and suffix were both cut at a line
\* boundary.
C18_Witness ==
    /\ call.fn = "extractContext"
    /\ call.result.prefix # <<>>
    /\ call.result.suffix # <<>>
    /\ Len(call.result.prefix) < Min({call.cursorPosition, call.contextChars})
    /\ Len(call.result.suffix)
          < Min({Len(call.doc) - call.cursorPosition, call.contextChars \div 3})

\* C19: for each case policy, applying the policy to a text it has produced
\* gives that text again.
C19_CasePolicyIdempotent ==
    call.fn = "transformCase"
       => transformCase(call.result, call.caseType) = call.result

\* C19 witness: a text the first-letter policy has changed.
C19_Witness ==
    /\ call.fn = "transformCase"
    /\ call.caseType = "firstLower"
    /\ call.result # call.text
    /\ Len(call.text) > 1

\* an idle countdown of view v can expire now and its trigger() is accepted
\* by a predicting engine
TriggerAcceptedWhilePredicting(v) ==
    /\ state = "predicting"
    /\ idleTimer[v] # "none"
    /\ settings.enabled
    /\ ~Refused(Cur(AnyOptions), v)

\* C20 as amended: an automatic trigger accepted while the engine is
\* predicting aborts the request whose controller the provider holds, issues
\* no request, and leaves the engine in queued with the delay timer pending.
C20_TriggerWhilePredictingRequeues ==
    \A v \in views :
        LET f == idleTimerCallback(Cur(AnyOptions), v)
        IN TriggerAcceptedWhilePredicting(v)
              => /\ f.state = "queued"
                 /\ f.queueTimer
                 /\ ~f.abortController
                 /\ \A q \in BagToSet(f.requests) : q.controller # "held"
                 /\ BagCardinality(f.requests) = BagCardinality(requests)

\* C20 witness: a request is in flight, held by the provider, when the idle
\* countdown of an automatic engine is about to expire.
C20_Witness ==
    \E v \in views :
        /\ TriggerAcceptedWhilePredicting(v)
        /\ abortController
        /\ InFlight(requests) = 1

\* C20: an automatic trigger accepted while the engine is predicting cancels
\* the in-flight request, re-issues a new request and leaves the engine in
\* predicting.
C20_TriggerWhilePredictingReissues ==
    \A v \in views :
        LET f == idleTimerCallback(Cur(AnyOptions), v)
        IN TriggerAcceptedWhilePredicting(v)
              => /\ f.state = "predicting"
                 /\ f.abortController
                 /\ InFlight(f.requests) = 1
                 /\ BagCardinality(f.requests) = BagCardinality(requests) + 1

C23_TextCommitsOverlay ==
    [][\A r \in BagToSet(requests), s \in Texts :
          (/\ state = "predicting"
           /\ r.controller = "held"
           /\ cursor[r.view] = r.cursorPosition
           /\ RequestSettle(r, s))
          => (/\ state' = "suggesting"
              /\ ghost'[r.view] = {[text |-> s, position |-> r.cursorPosition]})]_vars

\* C23 witness: a suggestion is shown past the start of the document, at the
\* cursor.
C23_Witness ==
    \E v \in views :
        /\ state = "suggesting"
        /\ \E g \in ghost[v] : g.position > 0 /\ g.position = cursor[v]

\* C24: a cursor move with no text change made while the engine is queued or
\* predicting cancels the delay timer or the in-flight request and returns
\* the engine to idle.
C24_CursorMoveCancelsPendingWork ==
    [][\A v \in views, h \in 0..MaxDocLen :
          (/\ state \in {"queued", "predicting"}
           /\ h # cursor[v]
           /\ SelectionChange(v, h))
          => (/\ state' = "idle"
              /\ ~queueTimer'
              /\ InFlight(requests') = 0)]_vars

\* C25: a selection change with no text change starts or restarts neither
\* the idle countdown nor the delay timer, issues no request, and does not
\* move the engine into queued or predicting.
C25_SelectionChangeStartsNothing ==
    [][\A v \in views, h \in 0..MaxDocLen :
          SelectionChange(v, h)
          => (/\ idleTimer' = idleTimer
              /\ queueTimer' = queueTimer
              /\ orphanTimers' = orphanTimers
              /\ NoRequestIssued
              /\ state' \in {"queued", "predicting"} => state' = state)]_vars

\* C25 witness: the cursor has been moved back from the end of the text in
\* an idle automatic engine, and no idle countdown is pending.
C25_Witness ==
    \E v \in views :
        /\ cursor[v] < Len(doc[v])
        /\ settings.enabled /\ ~settings.manualTriggerOnly
        /\ state = "idle"
        /\ idleTimer[v] = "none"

\* C26: the clear that dismiss() deferred removes only the suggestion that
\* was dismissed: a suggestion committed after the dismiss, with the engine
\* in suggesting for it, is still shown after the deferred clear has run.
C26_DeferredClearKeepsNewSuggestion ==
    [][\A v \in views :
          (state = "suggesting" /\ ghost[v] # {} /\ AnimationFrame(v))
          => (ghost'[v] = ghost[v])]_vars

\* C27: after the teardown no delay timer and no idle countdown is pending,
\* no request is in flight and no suggestion is shown.
C27_TeardownCancelsEverything ==
    [][Unload
          => (/\ ~queueTimer'
              /\ orphanTimers' = 0
              /\ \A v \in views : idleTimer'[v] = "none"
              /\ InFlight(requests') = 0
              /\ \A v \in views : ghost'[v] = {})]_vars

ClosingDelimiters(d) ==
    {p \in 4..Len(d) :
        /\ d[p] = NL
        /\ StartsWithAt(d, <<"-", "-", "-">>, p)
        /\ p + 3 = Len(d) \/ StartsWithAt(d, <<NL>>, p + 3)}

\* C29: in a document that begins with a front-matter delimiter line and
\* contains the closing delimiter line (also when it follows the opening line
\* immediately), a cursor before the closing delimiter is in the front
\* matter and a cursor after the closing delimiter line is not.
C29_ClosedFrontmatter ==
    (/\ call.fn = "isInFrontmatter"
     /\ StartsWithAt(call.doc, <<"-", "-", "-", NL>>, 0)
     /\ ClosingDelimiters(call.doc) # {})
       => LET closing == Min(ClosingDelimiters(call.doc))
          IN /\ call.cursorPosition <= closing => call.result
             /\ call.cursorPosition > closing + 3 => ~call.result

\* C30: in every reachable state of the loaded plugin a delay timer is
\* pending if and only if the phase is queued, and at most one delay timer is
\* pending.
C30_TimerIffQueued ==
    loaded => (/\ queueTimer <=> state = "queued"
               /\ orphanTimers = 0)

\* C30 witness: the engine is queued with its delay timer after a trigger
\* has replaced a request, which has not settled yet.
C30_Witness ==
    /\ loaded
    /\ state = "queued"
    /\ queueTimer
    /\ \E q \in BagToSet(requests) : q.controller = "aborted"

\* what the tasks other than a manual trigger that can run now would leave:
\* the callback of the pending delay timer, the callback of a pending idle
\* countdown, and the plugin update of an edit that types a full stop
AutomaticTasks(e) ==
    (IF queueTimer THEN {queueTimerCallback(e)} ELSE {})
    \cup {idleTimerCallback(e, v) : v \in {w \in views : idleTimer[w] # "none"}}
    \cup {TriggerPluginUpdate(e, v, [docChanged |-> TRUE, selectionSet |-> TRUE,
                                    inserted |-> <<".">>, typed |-> TRUE]) :
             v \in views}

\* C31: while the manual-only flag is set no task other than a manual
\* trigger issues a completion request, also when the flag was turned on
\* while a delay timer or an idle countdown started earlier is pending.
C31_ManualOnlyIssuesNoAutomaticRequest ==
    settings.manualTriggerOnly
       => \A o \in Options : \A f \in AutomaticTasks(Cur(o)) :
             BagCardinality(f.requests) <= BagCardinality(requests)

\* what the timer callbacks that can run now would leave: the callback of a
\* pending delay timer and the callback of a pending idle countdown
TimerExpiries(e) ==
    (IF queueTimer \/ orphanTimers > 0 THEN {queueTimerCallback(e)} ELSE {})
    \cup {idleTimerCallback(e, v) : v \in {w \in views : idleTimer[w] # "none"}}

\* C32: while a suggestion is shown no timer expiry (of a delay timer, or of
\* an idle countdown left pending by an earlier edit) removes the overlay or
\* moves the engine out of suggesting.
C32_TimerExpiryKeepsSuggestion ==
    (state = "suggesting" /\ OverlayShown)
       => \A o \in Options : \A f \in TimerExpiries(Cur(o)) :
             f.state = "suggesting" /\ f.ghost = ghost

\* C33: in a behaviour in which every pending delay timer eventually fires
\* and every issued request eventually settles, and in which from some point
\* on every step is a timer callback, the settling of a request or an
\* animation frame (no further trigger, edit or setting change by the user),
\* an engine in queued or predicting eventually is in idle, suggesting or
\* disabled.
C33_Progress ==
    (<>[][SystemStep]_vars)
       => ((state \in {"queued", "predicting"})
              ~> (state \in {"idle", "suggesting", "disabled"}))

\* C33 witness: the engine is predicting for a request while a request it
\* replaced has not settled yet.
C33_Witness ==
    /\ state = "predicting"
    /\ \E q \in BagToSet(requests) : q.controller = "held"
    /\ \E q \in BagToSet(requests) : q.controller = "aborted"

\* C34: with two views sharing the engine, a step in which the engine
\* leaves suggesting by an edit, a cursor move or a dismiss in either view
\* leaves every view with no overlay, or with the deferred clear of its
\* overlay scheduled.
C34_LeavingSuggestingClearsEveryView ==
    [][(/\ state = "suggesting"
        /\ state' # "suggesting"
        /\ \/ doc' # doc
           \/ cursor' # cursor
           \/ DismissCommand
           \/ \E v \in views : EscapeKey(v)
           \/ \E v \in views, h \in 0..MaxPaneLen : SelectionChange(v, h))
          => (\A v \in views : ghost'[v] = {} \/ raf'[v])]_vars

\* C35: an edit that does not make the document longer fires no immediate
\* trigger, whatever edits came before it (also edits made while the engine
\* was disabled or in manual-only mode): with the plugin enabled and in
\* automatic mode, where the edit resets the engine first, the engine is not
\* queued after it.
C35_ShrinkingEditFiresNoTrigger ==
    [][\A v \in views :
          (/\ doc'[v] # doc[v]
           /\ Len(doc'[v]) <= Len(doc[v])
           /\ settings.enabled /\ ~settings.manualTriggerOnly)
          => ~(state' = "queued" /\ queueTimer')]_vars

====
